---- MODULE Spec2Model ----
(***************************************************************************)
(* XLDirectDriver (nova/virt/xl/driver.py): a Nova virt driver that drives *)
(* the Xen `xl` command line tool.                                         *)
(*                                                                         *)
(* Two groups of operations are modelled.                                  *)
(*  - The lifecycle operations spawn, destroy and reboot run as sequences  *)
(*    of steps (one step per file-system call or xl command) by caller     *)
(*    threads, over the hypervisor's domain table and the /etc/xen tree.   *)
(*  - The stateless operations _execute_xl, get_info, list_instances and   *)
(*    get_available_resource are functions of the outcome of the external  *)
(*    process they run; they are applied to outcomes drawn from bounded    *)
(*    sets.                                                                *)
(***************************************************************************)
EXTENDS Integers, Sequences, FiniteSets, TLC

VARIABLES
    dom,       \* hypervisor: domain name -> "ABSENT" | "RUNNING" | "PAUSED"
    dirs,      \* file system: the set of directories that exist
    files,     \* file system: config path -> NoFile | EmptyFile | artifact
    op,        \* per thread: the operation in progress and its arguments
    pc,        \* per thread: position inside the operation
    trace,     \* per thread: the external calls made by the operation so far
    log,       \* per thread: the levels of the LOG records written so far
    result,    \* per thread: "none" | "ok" | the exception raised to the caller
    startDom,  \* per thread: the domain state when the operation was called
    raced,     \* per thread: whether another operation on the same name has
               \* been in progress at any time since the operation was called
    call,      \* stateless operations: the call and the process outcome(s)
    ret        \* stateless operations: what the call gave back

vars == <<dom, dirs, files, op, pc, trace, log, result, startDom, raced, call, ret>>

lifecycleVars ==
    <<dom, dirs, files, op, pc, trace, log, result, startDom, raced>>
queryVars == <<call, ret>>

(***************************************************************************)
(* The callers: two threads of the orchestration framework.                *)
(***************************************************************************)
Threads == {"t1", "t2"}

(***************************************************************************)
(* Instances handed in by the caller (instance.name, instance.uuid,        *)
(* instance.flavor.memory_mb, instance.flavor.vcpus).  Two specifications  *)
(* share the name vm1.                                                     *)
(***************************************************************************)
Names == {"vm1", "vm2"}

Instances ==
    { [name |-> "vm1", uuid |-> "uuid-1", memory_mb |-> 512,  vcpus |-> 2],
      [name |-> "vm1", uuid |-> "uuid-1", memory_mb |-> 1024, vcpus |-> 1],
      [name |-> "vm2", uuid |-> "uuid-2", memory_mb |-> 256,  vcpus |-> 1] }

NoInstance == [name |-> "", uuid |-> "", memory_mb |-> 0, vcpus |-> 0]

NoOp == [kind |-> "none", instance |-> NoInstance,
         power_on |-> FALSE, destroy_disks |-> FALSE, reboot_type |-> "none"]

(***************************************************************************)
(* Paths: os.path.join('/etc/xen', name) and os.path.join(dir, 'config').  *)
(***************************************************************************)
instance_dir(name) == <<"/etc/xen", name>>

\* Mutation of cfg_path: one config path shared by all instances.
cfg_path_Mut(name) == Append(instance_dir("vm1"), "config")

cfg_path(name) == Append(instance_dir(name), "config")

CfgPaths == {cfg_path(n) : n \in Names}

NoFile == <<"<no file>">>

EmptyFile == <<>>

(***************************************************************************)
(* _get_xl_config: the lines of the config file, joined by '\n' in the     *)
(* source; kept here as the sequence of lines, each line the sequence of   *)
(* its literal and interpolated pieces.                                    *)
(***************************************************************************)
_get_xl_config(instance) ==
    << <<"name = '", instance.name, "'">>,
       <<"memory = ", instance.memory_mb>>,
       <<"vcpus = ", instance.vcpus>>,
       <<"uuid = '", instance.uuid, "'">>,
       <<"builder = 'hvm'">>,
       <<"boot = 'c'">>,
       <<"acpi = 1">>,
       <<"apic = 1">>,
       <<"disk = ['phy:/dev/vg0/", instance.name, ",hda,w']">>,
       <<"vnc = 1">>,
       <<"vnclisten = '0.0.0.0'">> >>

Artifacts == {_get_xl_config(i) : i \in Instances}

\* The name xl reads from a config file: the second piece of its first line.
ConfigName(content) == content[1][2]

(***************************************************************************)
(* The external process behind one subprocess.run(..., check=True).        *)
(*   exit0        the process ran and exited 0                             *)
(*   nonzero      the process ran and exited non-zero                      *)
(*   cannot_start the process could not be started (binary missing,        *)
(*                permission denied): subprocess.run raises an OSError     *)
(***************************************************************************)
Outcomes == {"exit0", "nonzero", "cannot_start"}

Proc(outcome, stdout, stderr) ==
    [outcome |-> outcome, stdout |-> stdout, stderr |-> stderr]

(***************************************************************************)
(* _execute_xl: returns the CompletedProcess on exit 0; on a non-zero exit *)
(* subprocess.run raises CalledProcessError, which alone is caught, logged *)
(* at error level and re-raised as NovaException(stderr).  Any other       *)
(* exception of subprocess.run leaves _execute_xl as it is.                *)
(***************************************************************************)
Returned(value, logs) ==
    [status |-> "returned", exc |-> "none", msg |-> "", value |-> value, log |-> logs]

Raised(exc, msg, logs) ==
    [status |-> "raised", exc |-> exc, msg |-> msg, value |-> <<>>, log |-> logs]

_execute_xl(proc) ==
    CASE proc.outcome = "exit0" ->
            Returned(proc.stdout, <<"debug">>)
      [] proc.outcome = "nonzero" ->
            Raised("NovaException", proc.stderr, <<"debug", "error">>)
      [] proc.outcome = "cannot_start" ->
            Raised("OSError", "", <<"debug">>)

(***************************************************************************)
(* The hypervisor behind the xl binary: the outcomes one command can have  *)
(* in the current state, each with the domain table it leaves.  Every      *)
(* command may fail to start or exit non-zero without effect; it exits 0   *)
(* only when the hypervisor can carry it out.                              *)
(***************************************************************************)
XlFailures ==
    { [proc |-> Proc("nonzero", "", "xl: error"), dom |-> dom],
      [proc |-> Proc("cannot_start", "", ""), dom |-> dom] }

XlSuccess(cmd, arg) ==
    CASE cmd = "create" ->
            IF /\ arg \in CfgPaths
               /\ files[arg] \in Artifacts
               /\ ConfigName(files[arg]) \in Names
               /\ dom[ConfigName(files[arg])] = "ABSENT"
            THEN { [proc |-> Proc("exit0", "", ""),
                    dom |-> [dom EXCEPT ![ConfigName(files[arg])] = "RUNNING"]] }
            ELSE {}
      [] cmd = "pause" ->
            IF arg \in Names /\ dom[arg] = "RUNNING"
            THEN { [proc |-> Proc("exit0", "", ""),
                    dom |-> [dom EXCEPT ![arg] = "PAUSED"]] }
            ELSE {}
      [] cmd = "destroy" ->
            IF arg \in Names /\ dom[arg] # "ABSENT"
            THEN { [proc |-> Proc("exit0", "", ""),
                    dom |-> [dom EXCEPT ![arg] = "ABSENT"]] }
            ELSE {}
      [] cmd \in {"reboot", "reset"} ->
            IF arg \in Names /\ dom[arg] # "ABSENT"
            THEN { [proc |-> Proc("exit0", "", ""), dom |-> dom] }
            ELSE {}
      [] OTHER -> {}

Xl(cmd, arg) == XlSuccess(cmd, arg) \cup XlFailures

(***************************************************************************)
(* Bookkeeping shared by the steps of the lifecycle operations.            *)
(***************************************************************************)
Ext(step, arg, outcome) == [step |-> step, arg |-> arg, outcome |-> outcome]

Goto(t, label) == pc' = [pc EXCEPT ![t] = label]

Record(t, e) == trace' = [trace EXCEPT ![t] = Append(@, e)]

Logged(t, levels) == log' = [log EXCEPT ![t] = @ \o levels]

\* The operation returns normally to its caller.
ReturnOk(t) ==
    /\ result' = [result EXCEPT ![t] = "ok"]
    /\ Goto(t, "ret")

\* The operation raises exc to its caller.
Raise(t, exc) ==
    /\ result' = [result EXCEPT ![t] = exc]
    /\ Goto(t, "ret")

\* The other threads with an operation on name in progress.
SameNameInProgress(t, name) ==
    {u \in Threads \ {t} : pc[u] # "idle" /\ op[u].instance.name = name}

Enter(t, o, label) ==
    /\ pc[t] = "idle"
    /\ op' = [op EXCEPT ![t] = o]
    /\ Goto(t, label)
    /\ trace' = [trace EXCEPT ![t] = <<>>]
    /\ log' = [log EXCEPT ![t] = <<>>]
    /\ result' = [result EXCEPT ![t] = "none"]
    /\ startDom' = [startDom EXCEPT ![t] = dom[o.instance.name]]
    /\ raced' =
          [u \in Threads |->
              IF u = t THEN SameNameInProgress(t, o.instance.name) # {}
              ELSE raced[u] \/ u \in SameNameInProgress(t, o.instance.name)]
    /\ UNCHANGED <<dom, dirs, files, queryVars>>

(***************************************************************************)
(* spawn(instance, power_on)                                               *)
(***************************************************************************)
spawn_call(t, instance, power_on) ==
    Enter(t, [kind |-> "spawn", instance |-> instance,
              power_on |-> power_on, destroy_disks |-> FALSE,
              reboot_type |-> "none"], "makedirs")

\* os.makedirs(instance_dir, exist_ok=True): no error when the directory is
\* already there; creating it can fail with an OSError.
spawn_makedirs(t) ==
    /\ pc[t] = "makedirs"
    /\ LET d == instance_dir(op[t].instance.name) IN
       \/ /\ dirs' = dirs \cup {d}
          /\ Record(t, Ext("makedirs", d, "ok"))
          /\ Goto(t, "write_config")
          /\ UNCHANGED result
       \/ /\ d \notin dirs
          /\ Record(t, Ext("makedirs", d, "error"))
          /\ Raise(t, "OSError")
          /\ UNCHANGED dirs
    /\ UNCHANGED <<dom, files, op, log, startDom, raced, queryVars>>

\* Mutation of spawn_write_config: a failed write is not raised and spawn
\* goes on to the create command.
spawn_write_config_Mut(t) ==
    /\ pc[t] = "write_config"
    /\ LET name == op[t].instance.name
           p    == cfg_path(name)
           cfg  == _get_xl_config(op[t].instance)
       IN
       \/ /\ instance_dir(name) \in dirs
          /\ files' = [files EXCEPT ![p] = cfg]
          /\ Record(t, Ext("write", p, "ok"))
       \/ /\ files' = files
          /\ Record(t, Ext("write", p, "error"))
       \/ /\ instance_dir(name) \in dirs
          /\ files' = [files EXCEPT ![p] = EmptyFile]
          /\ Record(t, Ext("write", p, "error"))
    /\ Goto(t, "create")
    /\ UNCHANGED <<dom, dirs, op, log, result, startDom, raced, queryVars>>

\* cfg = self._get_xl_config(...); with open(cfg_path, 'w') as f: f.write(cfg)
\* open() needs the directory; a failed open leaves the file as it was, a
\* failed write leaves it truncated.
spawn_write_config(t) ==
    /\ pc[t] = "write_config"
    /\ LET name == op[t].instance.name
           p    == cfg_path(name)
           cfg  == _get_xl_config(op[t].instance)
       IN
       \/ /\ instance_dir(name) \in dirs
          /\ files' = [files EXCEPT ![p] = cfg]
          /\ Record(t, Ext("write", p, "ok"))
          /\ Goto(t, "create")
          /\ UNCHANGED result
       \/ /\ files' = files
          /\ Record(t, Ext("write", p, "error"))
          /\ Raise(t, "OSError")
       \/ /\ instance_dir(name) \in dirs
          /\ files' = [files EXCEPT ![p] = EmptyFile]
          /\ Record(t, Ext("write", p, "error"))
          /\ Raise(t, "OSError")
    /\ UNCHANGED <<dom, dirs, op, log, startDom, raced, queryVars>>

\* Mutation of NeedsPause: the test on power_on inverted.
NeedsPauseMut(power_on) == power_on

\* if not power_on: (line 89)
NeedsPause(power_on) == ~power_on

\* Mutation of spawn_create: a failed create is followed by a cleanup of the
\* config file before the error is raised.
spawn_create_Mut(t) ==
    /\ pc[t] = "create"
    /\ \E x \in Xl("create", cfg_path(op[t].instance.name)) :
          LET r == _execute_xl(x.proc) IN
          /\ dom' = x.dom
          /\ Record(t, Ext("create", cfg_path(op[t].instance.name), x.proc.outcome))
          /\ Logged(t, r.log)
          /\ IF r.status = "raised"
             THEN /\ Raise(t, r.exc)
                  /\ files' = [files EXCEPT ![cfg_path(op[t].instance.name)] = NoFile]
             ELSE /\ UNCHANGED files
                  /\ IF NeedsPause(op[t].power_on)
                     THEN Goto(t, "pause") /\ UNCHANGED result
                     ELSE ReturnOk(t)
    /\ UNCHANGED <<dirs, op, startDom, raced, queryVars>>

\* self._execute_xl('create', cfg_path)
spawn_create(t) ==
    /\ pc[t] = "create"
    /\ \E x \in Xl("create", cfg_path(op[t].instance.name)) :
          LET r == _execute_xl(x.proc) IN
          /\ dom' = x.dom
          /\ Record(t, Ext("create", cfg_path(op[t].instance.name), x.proc.outcome))
          /\ Logged(t, r.log)
          /\ IF r.status = "raised" THEN Raise(t, r.exc)
             ELSE IF NeedsPause(op[t].power_on)
                  THEN Goto(t, "pause") /\ UNCHANGED result
                  ELSE ReturnOk(t)
    /\ UNCHANGED <<dirs, files, op, startDom, raced, queryVars>>

\* self._execute_xl('pause', instance_name)
spawn_pause(t) ==
    /\ pc[t] = "pause"
    /\ \E x \in Xl("pause", op[t].instance.name) :
          LET r == _execute_xl(x.proc) IN
          /\ dom' = x.dom
          /\ Record(t, Ext("pause", op[t].instance.name, x.proc.outcome))
          /\ Logged(t, r.log)
          /\ IF r.status = "raised" THEN Raise(t, r.exc) ELSE ReturnOk(t)
    /\ UNCHANGED <<dirs, files, op, startDom, raced, queryVars>>

(***************************************************************************)
(* destroy(instance, destroy_disks)                                        *)
(***************************************************************************)
destroy_call(t, instance, destroy_disks) ==
    Enter(t, [kind |-> "destroy", instance |-> instance,
              power_on |-> FALSE, destroy_disks |-> destroy_disks,
              reboot_type |-> "none"], "destroy")

\* Mutation of DestroyCommand: the wrong xl command.
DestroyCommandMut == "pause"

\* The command destroy hands to xl (line 117).
DestroyCommand == "destroy"

\* try: self._execute_xl('destroy', instance.name)
\* except Exception as e: LOG.warning(...)
\* then: if destroy_disks: ...
destroy_xl(t) ==
    /\ pc[t] = "destroy"
    /\ \E x \in Xl(DestroyCommand, op[t].instance.name) :
          LET r == _execute_xl(x.proc) IN
          /\ dom' = x.dom
          /\ Record(t, Ext(DestroyCommand, op[t].instance.name, x.proc.outcome))
          /\ Logged(t, IF r.status = "raised" THEN r.log \o <<"warning">> ELSE r.log)
          /\ IF op[t].destroy_disks
             THEN Goto(t, "rm") /\ UNCHANGED result
             ELSE ReturnOk(t)
    /\ UNCHANGED <<dirs, files, op, startDom, raced, queryVars>>

\* Mutation of Rm: the removal takes the whole /etc/xen tree.
Rm_Mut(name) ==
    { [outcome |-> "exit0", dirs |-> {},
       files |-> [p \in CfgPaths |-> NoFile]],
      [outcome |-> "nonzero", dirs |-> dirs, files |-> files],
      [outcome |-> "cannot_start", dirs |-> dirs, files |-> files] }

\* The outcomes of `rm -rf <instance_dir>`, each with the tree it leaves:
\* exit 0 with the directory gone, a non-zero exit with the tree untouched or
\* partly removed, or no process at all.
Rm(name) ==
    LET d == instance_dir(name)
        p == cfg_path(name)
    IN  { [outcome |-> "exit0", dirs |-> dirs \ {d},
           files |-> [files EXCEPT ![p] = NoFile]],
          [outcome |-> "nonzero", dirs |-> dirs, files |-> files],
          [outcome |-> "nonzero", dirs |-> dirs,
           files |-> [files EXCEPT ![p] = NoFile]],
          [outcome |-> "cannot_start", dirs |-> dirs, files |-> files] }

\* try: subprocess.run(['rm', '-rf', instance_dir], check=True)
\* except subprocess.CalledProcessError as e: LOG.warning(...)
destroy_rm(t) ==
    /\ pc[t] = "rm"
    /\ \E x \in Rm(op[t].instance.name) :
          /\ dirs' = x.dirs
          /\ files' = x.files
          /\ Record(t, Ext("rm", instance_dir(op[t].instance.name), x.outcome))
          /\ CASE x.outcome = "exit0" -> ReturnOk(t) /\ UNCHANGED log
               [] x.outcome = "nonzero" -> ReturnOk(t) /\ Logged(t, <<"warning">>)
               [] x.outcome = "cannot_start" -> Raise(t, "OSError") /\ UNCHANGED log
    /\ UNCHANGED <<dom, op, startDom, raced, queryVars>>

(***************************************************************************)
(* reboot(instance, reboot_type)                                           *)
(***************************************************************************)
RebootTypes == {"SOFT", "HARD"}

reboot_call(t, instance, reboot_type) ==
    Enter(t, [kind |-> "reboot", instance |-> instance,
              power_on |-> FALSE, destroy_disks |-> FALSE,
              reboot_type |-> reboot_type], "reboot")

\* Mutation of RebootCommand: the two commands exchanged.
RebootCommandMut(reboot_type) ==
    IF reboot_type = "SOFT" THEN "reset" ELSE "reboot"

\* if reboot_type == 'SOFT': 'reboot' else: 'reset'
RebootCommand(reboot_type) ==
    IF reboot_type = "SOFT" THEN "reboot" ELSE "reset"

\* self._execute_xl('reboot' | 'reset', instance.name)
reboot_xl(t) ==
    /\ pc[t] = "reboot"
    /\ \E x \in Xl(RebootCommand(op[t].reboot_type), op[t].instance.name) :
          LET r == _execute_xl(x.proc) IN
          /\ dom' = x.dom
          /\ Record(t, Ext(RebootCommand(op[t].reboot_type),
                           op[t].instance.name, x.proc.outcome))
          /\ Logged(t, r.log)
          /\ IF r.status = "raised" THEN Raise(t, r.exc) ELSE ReturnOk(t)
    /\ UNCHANGED <<dirs, files, op, startDom, raced, queryVars>>

(***************************************************************************)
(* The caller takes the result; the thread is free for its next call.      *)
(***************************************************************************)
op_return(t) ==
    /\ pc[t] = "ret"
    /\ Goto(t, "idle")
    /\ op' = [op EXCEPT ![t] = NoOp]
    /\ trace' = [trace EXCEPT ![t] = <<>>]
    /\ log' = [log EXCEPT ![t] = <<>>]
    /\ result' = [result EXCEPT ![t] = "none"]
    /\ startDom' = [startDom EXCEPT ![t] = "none"]
    /\ raced' = [raced EXCEPT ![t] = FALSE]
    /\ UNCHANGED <<dom, dirs, files, queryVars>>

(***************************************************************************)
(* The caller's discipline (spec section 5): operations on one instance    *)
(* name are serialized by the caller, operations on different names may    *)
(* run concurrently.                                                       *)
(***************************************************************************)
CallerSerializes(t, name) ==
    \A u \in Threads \ {t} : pc[u] = "idle" \/ op[u].instance.name # name

NoCall == [op |-> "none"]

NoRet == [status |-> "none"]

LifecycleInit ==
    /\ dom = [n \in Names |-> "ABSENT"]
    /\ dirs = {}
    /\ files = [p \in CfgPaths |-> NoFile]
    /\ op = [t \in Threads |-> NoOp]
    /\ pc = [t \in Threads |-> "idle"]
    /\ trace = [t \in Threads |-> <<>>]
    /\ log = [t \in Threads |-> <<>>]
    /\ result = [t \in Threads |-> "none"]
    /\ startDom = [t \in Threads |-> "none"]
    /\ raced = [t \in Threads |-> FALSE]

Init ==
    /\ LifecycleInit
    /\ call = NoCall
    /\ ret = NoRet

Next ==
    \E t \in Threads :
        \/ \E i \in Instances, power_on \in BOOLEAN :
              CallerSerializes(t, i.name) /\ spawn_call(t, i, power_on)
        \/ spawn_makedirs(t)
        \/ spawn_write_config(t)
        \/ spawn_create(t)
        \/ spawn_pause(t)
        \/ \E i \in Instances, destroy_disks \in BOOLEAN :
              CallerSerializes(t, i.name) /\ destroy_call(t, i, destroy_disks)
        \/ destroy_xl(t)
        \/ destroy_rm(t)
        \/ \E i \in Instances, reboot_type \in RebootTypes :
              CallerSerializes(t, i.name) /\ reboot_call(t, i, reboot_type)
        \/ reboot_xl(t)
        \/ op_return(t)

Spec == Init /\ [][Next]_vars

(***************************************************************************)
(* The driver itself takes no lock on the instance name: without the       *)
(* caller's discipline a spawn or a destroy of an instance may start while *)
(* another spawn or destroy of the same name is in progress.               *)
(***************************************************************************)
RaceInstances == {i \in Instances : i.name = "vm1"}

NextRace ==
    \E t \in Threads :
        \/ \E i \in RaceInstances, power_on \in BOOLEAN : spawn_call(t, i, power_on)
        \/ spawn_makedirs(t)
        \/ spawn_write_config(t)
        \/ spawn_create(t)
        \/ spawn_pause(t)
        \/ \E i \in RaceInstances, destroy_disks \in BOOLEAN :
              destroy_call(t, i, destroy_disks)
        \/ destroy_xl(t)
        \/ destroy_rm(t)
        \/ op_return(t)

SpecRace == Init /\ [][NextRace]_vars

(***************************************************************************)
(* Text.  A string is the sequence of its characters.  The operators below *)
(* are the Python string methods the parsers use.                          *)
(***************************************************************************)
Whitespace == {" ", "\t", "\n"}

Digits == {"0", "1", "2", "3", "4", "5", "6", "7", "8", "9"}

DigitValue(c) ==
    CASE c = "0" -> 0 [] c = "1" -> 1 [] c = "2" -> 2 [] c = "3" -> 3
      [] c = "4" -> 4 [] c = "5" -> 5 [] c = "6" -> 6 [] c = "7" -> 7
      [] c = "8" -> 8 [] c = "9" -> 9

Front(s) == SubSeq(s, 1, Len(s) - 1)

\* str.split(sep) for a one-character separator: the pieces between the
\* separators, empty pieces included; always at least one piece.
RECURSIVE SplitAt(_, _, _, _)
SplitAt(s, sep, done, cur) ==
    IF s = <<>> THEN Append(done, cur)
    ELSE IF Head(s) = sep
         THEN SplitAt(Tail(s), sep, Append(done, cur), <<>>)
         ELSE SplitAt(Tail(s), sep, done, Append(cur, Head(s)))

split_sep(s, sep) == SplitAt(s, sep, <<>>, <<>>)

\* str.splitlines(): the lines, without a final empty line after a trailing
\* line break; no line at all for the empty string.
splitlines(s) ==
    LET parts == split_sep(s, "\n")
    IN  IF parts[Len(parts)] = <<>> THEN Front(parts) ELSE parts

\* str.split(): the maximal runs of non-whitespace characters.
RECURSIVE SplitWs(_, _, _)
SplitWs(s, done, cur) ==
    IF s = <<>> THEN (IF cur = <<>> THEN done ELSE Append(done, cur))
    ELSE IF Head(s) \in Whitespace
         THEN SplitWs(Tail(s), IF cur = <<>> THEN done ELSE Append(done, cur), <<>>)
         ELSE SplitWs(Tail(s), done, Append(cur, Head(s)))

split(s) == SplitWs(s, <<>>, <<>>)

\* str.strip(): without the leading and trailing whitespace.
RECURSIVE lstrip(_)
lstrip(s) ==
    IF s # <<>> /\ Head(s) \in Whitespace THEN lstrip(Tail(s)) ELSE s

RECURSIVE rstrip(_)
rstrip(s) ==
    IF s # <<>> /\ s[Len(s)] \in Whitespace THEN rstrip(Front(s)) ELSE s

strip(s) == rstrip(lstrip(s))

\* `sub in s` for strings.
Contains(s, sub) ==
    \E i \in 1..(Len(s) - Len(sub) + 1) : SubSeq(s, i, i + Len(sub) - 1) = sub

\* int(s) of a stripped string: an optional sign, then decimal digits, single
\* underscores allowed between digits; anything else is a ValueError.
Unsigned(s) == IF s # <<>> /\ Head(s) \in {"+", "-"} THEN Tail(s) ELSE s

IsIntLiteral(s) ==
    LET u == Unsigned(s) IN
    /\ u # <<>>
    /\ \A i \in 1..Len(u) : u[i] \in Digits \cup {"_"}
    /\ u[1] \in Digits
    /\ u[Len(u)] \in Digits
    /\ \A i \in 1..(Len(u) - 1) : ~(u[i] = "_" /\ u[i + 1] = "_")

RECURSIVE DecimalValue(_, _)
DecimalValue(u, acc) ==
    IF u = <<>> THEN acc
    ELSE IF Head(u) = "_" THEN DecimalValue(Tail(u), acc)
         ELSE DecimalValue(Tail(u), 10 * acc + DigitValue(Head(u)))

int(s) ==
    IF s # <<>> /\ Head(s) = "-"
    THEN 0 - DecimalValue(Unsigned(s), 0)
    ELSE DecimalValue(Unsigned(s), 0)

\* '\n'.join(lines), with a final line break when asked for.
RECURSIVE JoinLines(_)
JoinLines(lines) ==
    IF lines = <<>> THEN <<>>
    ELSE IF Len(lines) = 1 THEN lines[1]
         ELSE lines[1] \o <<"\n">> \o JoinLines(Tail(lines))

\* Mutation of POWER_STATE_MAP: the entries for blocked and dying left out.
POWER_STATE_MAP_Mut ==
    [tok \in {"running", "paused", "shutdown", "crashed"} |->
        CASE tok = "running"  -> "RUNNING"
          [] tok = "paused"   -> "PAUSED"
          [] tok = "shutdown" -> "SHUTDOWN"
          [] tok = "crashed"  -> "CRASHED"]

(***************************************************************************)
(* POWER_STATE_MAP and its use, POWER_STATE_MAP.get(state, NOSTATE).       *)
(***************************************************************************)
POWER_STATE_MAP ==
    [tok \in {"running", "blocked", "paused", "shutdown", "crashed", "dying"} |->
        CASE tok = "running"  -> "RUNNING"
          [] tok = "blocked"  -> "RUNNING"
          [] tok = "paused"   -> "PAUSED"
          [] tok = "shutdown" -> "SHUTDOWN"
          [] tok = "crashed"  -> "CRASHED"
          [] tok = "dying"    -> "CRASHED"]

PowerStateGet(tok) ==
    IF tok \in DOMAIN POWER_STATE_MAP THEN POWER_STATE_MAP[tok] ELSE "NOSTATE"

\* oslo_utils.units.Ki
Ki == 1024

(***************************************************************************)
(* JSON.  The output of `xl list -l <name>` is either text json.loads      *)
(* rejects or a decoded value: null, a number, a string, an object (here   *)
(* with the keys a domain object may carry; a key with value Missing is    *)
(* not in the object) or a list.                                           *)
(***************************************************************************)
Missing == [t |-> "missing", v |-> 0]

Null == [t |-> "null", v |-> 0]

Num(n) == [t |-> "num", v |-> n]

Str(s) == [t |-> "str", v |-> s]

Obj(state, maxmem, mem, vcpus) ==
    [t |-> "obj", state |-> state, maxmem |-> maxmem, mem |-> mem, vcpus |-> vcpus]

List(items) == [t |-> "list", items |-> items]

Undecodable == [t |-> "undecodable", v |-> 0]

ObjKeys(o) == {k \in {"state", "maxmem", "mem", "vcpus"} : o[k].t # "missing"}

\* Python truth value of a decoded JSON value (`if not data`).
Truthy(x) ==
    CASE x.t = "null" -> FALSE
      [] x.t = "num"  -> x.v # 0
      [] x.t = "str"  -> x.v # ""
      [] x.t = "obj"  -> ObjKeys(x) # {}
      [] x.t = "list" -> x.items # <<>>

\* x * units.Ki: a product for a number, a repetition for a string, a
\* TypeError for null and for an object.
TimesKi(x) ==
    CASE x.t = "num" -> Num(x.v * Ki)
      [] x.t = "str" -> [t |-> "str", v |-> <<x.v, "repeated", Ki>>]
      [] OTHER -> [t |-> "TypeError", v |-> 0]

(***************************************************************************)
(* get_info(instance): the body of the try block ...                      *)
(***************************************************************************)
get_info_try(proc) ==
    LET out == _execute_xl(proc) IN
    IF out.status = "raised" THEN out
    ELSE LET data == out.value IN
         IF data.t = "undecodable" THEN Raised("JSONDecodeError", "", out.log)
         ELSE IF ~Truthy(data) THEN Raised("InstanceNotFound", "", out.log)
         ELSE IF data.t = "obj" THEN Raised("KeyError", "", out.log)
         ELSE IF data.t # "list" THEN Raised("TypeError", "", out.log)
         ELSE LET domain_info == data.items[1] IN
              IF domain_info.t # "obj" THEN Raised("TypeError", "", out.log)
              ELSE IF domain_info.state.t = "missing" THEN Raised("KeyError", "", out.log)
              ELSE IF domain_info.maxmem.t = "missing" THEN Raised("KeyError", "", out.log)
              ELSE IF TimesKi(domain_info.maxmem).t = "TypeError"
                   THEN Raised("TypeError", "", out.log)
              ELSE IF domain_info.mem.t = "missing" THEN Raised("KeyError", "", out.log)
              ELSE IF TimesKi(domain_info.mem).t = "TypeError"
                   THEN Raised("TypeError", "", out.log)
              ELSE IF domain_info.vcpus.t = "missing" THEN Raised("KeyError", "", out.log)
              ELSE Returned(
                     [state    |-> IF domain_info.state.t = "str"
                                   THEN PowerStateGet(domain_info.state.v)
                                   ELSE "NOSTATE",
                      max_mem  |-> TimesKi(domain_info.maxmem),
                      mem      |-> TimesKi(domain_info.mem),
                      num_cpu  |-> domain_info.vcpus,
                      cpu_time |-> 0],
                     out.log)

\* Mutation of get_info: the handler catches the executor's error only.
get_info_Mut(instance, proc) ==
    LET r == get_info_try(proc) IN
    IF r.status = "raised" /\ r.exc = "NovaException"
    THEN Raised("InstanceNotFound", instance.uuid, r.log \o <<"exception">>)
    ELSE r

\* ... and its handler: except Exception: LOG.exception(...);
\* raise exception.InstanceNotFound(instance_id=instance.uuid)
get_info(instance, proc) ==
    LET r == get_info_try(proc) IN
    IF r.status = "raised"
    THEN Raised("InstanceNotFound", instance.uuid, r.log \o <<"exception">>)
    ELSE r

(***************************************************************************)
(* list_instances()                                                        *)
(***************************************************************************)
\* Mutation of SkipHeader: the header line is not skipped.
SkipHeaderMut(lines) == lines

\* out.stdout.splitlines()[1:]
SkipHeader(lines) == IF lines = <<>> THEN <<>> ELSE Tail(lines)

list_instances(proc) ==
    LET out == _execute_xl(proc) IN
    IF out.status = "raised" THEN out
    ELSE LET lines == SkipHeader(splitlines(out.value)) IN
         IF \E i \in 1..Len(lines) : split(lines[i]) = <<>>
         THEN Raised("IndexError", "", out.log)
         ELSE Returned([i \in 1..Len(lines) |-> split(lines[i])[1]], out.log)

(***************************************************************************)
(* get_available_resource(nodename)                                        *)
(***************************************************************************)
total_memory == <<"t", "o", "t", "a", "l", "_", "m", "e", "m", "o", "r", "y">>

free_memory == <<"f", "r", "e", "e", "_", "m", "e", "m", "o", "r", "y">>

\* Mutation of ParseValue: the piece before the colon is taken, not the
\* piece after it.
ParseValueMut(line) ==
    LET parts == split_sep(line, ":") IN
    IF Len(parts) < 2 THEN [exc |-> "IndexError", v |-> 0]
    ELSE IF ~IsIntLiteral(strip(parts[1])) THEN [exc |-> "ValueError", v |-> 0]
    ELSE [exc |-> "none", v |-> int(strip(parts[1]))]

\* int(line.split(':')[1].strip())
ParseValue(line) ==
    LET parts == split_sep(line, ":") IN
    IF Len(parts) < 2 THEN [exc |-> "IndexError", v |-> 0]
    ELSE IF ~IsIntLiteral(strip(parts[2])) THEN [exc |-> "ValueError", v |-> 0]
    ELSE [exc |-> "none", v |-> int(strip(parts[2]))]

\* The loop over memory_info.stdout.splitlines(), from the state m it has
\* reached: the first exception ends it.
RECURSIVE ParseMemory(_, _)
ParseMemory(lines, m) ==
    IF lines = <<>> \/ m.exc # "none" THEN m
    ELSE LET line == Head(lines) IN
         IF Contains(line, total_memory)
         THEN ParseMemory(Tail(lines),
                  [m EXCEPT !.exc = ParseValue(line).exc,
                            !.total = IF ParseValue(line).exc = "none"
                                      THEN ParseValue(line).v ELSE @])
         ELSE IF Contains(line, free_memory)
         THEN ParseMemory(Tail(lines),
                  [m EXCEPT !.exc = ParseValue(line).exc,
                            !.free = IF ParseValue(line).exc = "none"
                                     THEN ParseValue(line).v ELSE @])
         ELSE ParseMemory(Tail(lines), m)

get_available_resource(proc, proc2) ==
    LET memory_info == _execute_xl(proc) IN
    IF memory_info.status = "raised" THEN memory_info
    ELSE LET m == ParseMemory(splitlines(memory_info.value),
                              [exc |-> "none", total |-> 0, free |-> 0])
         IN
         IF m.exc # "none" THEN Raised(m.exc, "", memory_info.log)
         ELSE LET cpu_info == _execute_xl(proc2) IN
              IF cpu_info.status = "raised"
              THEN [cpu_info EXCEPT !.log = memory_info.log \o @]
              ELSE Returned(
                     [vcpus          |-> Len(splitlines(cpu_info.value)),
                      vcpus_used     |-> 0,
                      memory_mb      |-> m.total \div 1024,
                      memory_mb_used |-> (m.total - m.free) \div 1024,
                      local_gb       |-> 0,
                      local_gb_used  |-> 0],
                     memory_info.log \o cpu_info.log)

(***************************************************************************)
(* The text of the artifact: what the f-strings and '\n'.join of           *)
(* _get_xl_config produce, character by character.  The literal pieces are *)
(* copied, str() of an integer is its decimal numeral, and a name or uuid  *)
(* is interpolated as it is, with no quoting or escaping.                  *)
(***************************************************************************)
\* The characters of the literal pieces of the f-strings.
Literal(s) ==
    CASE s = "name = '" ->
            <<"n", "a", "m", "e", " ", "=", " ", "'">>
      [] s = "'" ->
            <<"'">>
      [] s = "memory = " ->
            <<"m", "e", "m", "o", "r", "y", " ", "=", " ">>
      [] s = "vcpus = " ->
            <<"v", "c", "p", "u", "s", " ", "=", " ">>
      [] s = "uuid = '" ->
            <<"u", "u", "i", "d", " ", "=", " ", "'">>
      [] s = "builder = 'hvm'" ->
            <<"b", "u", "i", "l", "d", "e", "r", " ", "=", " ", "'", "h", "v", "m", "'">>
      [] s = "boot = 'c'" ->
            <<"b", "o", "o", "t", " ", "=", " ", "'", "c", "'">>
      [] s = "acpi = 1" ->
            <<"a", "c", "p", "i", " ", "=", " ", "1">>
      [] s = "apic = 1" ->
            <<"a", "p", "i", "c", " ", "=", " ", "1">>
      [] s = "disk = ['phy:/dev/vg0/" ->
            <<"d", "i", "s", "k", " ", "=", " ", "[", "'", "p", "h", "y", ":", "/", "d", "e", "v", "/", "v", "g", "0", "/">>
      [] s = ",hda,w']" ->
            <<",", "h", "d", "a", ",", "w", "'", "]">>
      [] s = "vnc = 1" ->
            <<"v", "n", "c", " ", "=", " ", "1">>
      [] s = "vnclisten = '0.0.0.0'" ->
            <<"v", "n", "c", "l", "i", "s", "t", "e", "n", " ", "=", " ", "'", "0", ".", "0", ".", "0", ".", "0", "'">>

DigitChar(d) == <<"0", "1", "2", "3", "4", "5", "6", "7", "8", "9">>[d + 1]

\* str(n) for a natural number.
RECURSIVE DecimalText(_)
DecimalText(n) ==
    IF n < 10 THEN <<DigitChar(n)>>
    ELSE Append(DecimalText(n \div 10), DigitChar(n % 10))

RECURSIVE Concat(_)
Concat(pieces) ==
    IF pieces = <<>> THEN <<>> ELSE Head(pieces) \o Concat(Tail(pieces))

\* Piece k of line l of the artifact as text: the second piece of a line is
\* the interpolated value, an integer on the memory and vcpus lines.
PieceText(l, k, piece) ==
    IF k # 2 THEN Literal(piece)
    ELSE IF l \in {2, 3} THEN DecimalText(piece)
    ELSE piece

ConfigText(cfg) ==
    JoinLines([l \in 1..Len(cfg) |->
                  Concat([k \in 1..Len(cfg[l]) |-> PieceText(l, k, cfg[l][k])])])

(***************************************************************************)
(* Reading fields back out of an artifact, in the syntax of xl config      *)
(* files: one `key = value` assignment per line, a string value between    *)
(* single quotes, a number as a decimal numeral.                           *)
(***************************************************************************)
\* What the parser gives for a field it cannot read: no text for a string,
\* no natural number for a number.
ParseError == <<"<parse error>">>

NotANumber == 0 - 1

StartsWith(s, prefix) ==
    Len(s) >= Len(prefix) /\ SubSeq(s, 1, Len(prefix)) = prefix

\* The positions at which a line of the text starts, and the line that
\* starts at a position.
LineStarts(text) ==
    {i \in 1..(Len(text) + 1) : i = 1 \/ text[i - 1] = "\n"}

LineAt(text, i) ==
    LET breaks == {j \in i..Len(text) : text[j] = "\n"}
        end    == IF breaks = {} THEN Len(text) + 1
                  ELSE CHOOSE j \in breaks : \A k \in breaks : j <= k
    IN  SubSeq(text, i, end - 1)

\* The value text of the first assignment to key, or ParseError.
FieldValue(text, key) ==
    LET prefix == key \o <<" ", "=", " ">>
        found  == {i \in LineStarts(text) : StartsWith(LineAt(text, i), prefix)}
        first  == CHOOSE i \in found : \A k \in found : i <= k
    IN  IF found = {} THEN ParseError
        ELSE SubSeq(LineAt(text, first), Len(prefix) + 1, Len(LineAt(text, first)))

\* A quoted string: an opening quote, the value, a closing quote, nothing
\* after it.
ParseString(v) ==
    IF v = ParseError THEN ParseError
    ELSE IF v = <<>> \/ Head(v) # "'" THEN ParseError
    ELSE LET parts == split_sep(Tail(v), "'") IN
         IF Len(parts) = 2 /\ parts[2] = <<>> THEN parts[1] ELSE ParseError

ParseNumber(v) ==
    IF v # <<>> /\ \A i \in 1..Len(v) : v[i] \in Digits
    THEN DecimalValue(v, 0)
    ELSE NotANumber

ParseConfig(text) ==
    [name      |-> ParseString(FieldValue(text, <<"n", "a", "m", "e">>)),
     memory_mb |-> ParseNumber(FieldValue(text, <<"m", "e", "m", "o", "r", "y">>)),
     vcpus     |-> ParseNumber(FieldValue(text, <<"v", "c", "p", "u", "s">>))]

(***************************************************************************)
(* attach_interface(instance, vif) runs                                    *)
(*   xl network-attach <name> mac=<vif.address> bridge=<vif.network.bridge>*)
(* and detach_interface(instance, vif) runs                                *)
(*   xl network-detach <name> <vif.id>                                     *)
(* through _execute_xl, with no try block, and return None.                *)
(***************************************************************************)
\* Mutation of attach_interface: a failed command is dropped.
attach_interface_Mut(instance, vif, proc) ==
    Returned(<<>>, _execute_xl(proc).log)

attach_interface(instance, vif, proc) ==
    LET out == _execute_xl(proc) IN
    IF out.status = "raised" THEN out ELSE Returned(<<>>, out.log)

detach_interface(instance, vif, proc) ==
    LET out == _execute_xl(proc) IN
    IF out.status = "raised" THEN out ELSE Returned(<<>>, out.log)

(***************************************************************************)
(* Bounds of the process outputs handed to the stateless operations.       *)
(***************************************************************************)
MaxLines == 3

MaxMemLines == 2

MaxCpuLines == 4

MaxDomains == 2

SeqsUpTo(S, n) == UNION {[1..k -> S] : k \in 0..n}

\* The text of a process output: its lines joined by line breaks, with or
\* without a final line break.
Stdout(lines, nl) == JoinLines(lines) \o (IF nl THEN <<"\n">> ELSE <<>>)

FailProcs ==
    { Proc("nonzero", <<>>, ""),
      Proc("nonzero", <<>>, "xl: error"),
      Proc("cannot_start", <<>>, "") }

NoProc == Proc("exit0", <<>>, "")

\* `xl list`
Header == <<"N", "A", "M", "E", " ", "S", "T", "A", "T", "E", " ", "M", "E", "M", " ", "V", "C", "P", "U", "S">>

Vm1Line == <<"v", "m", "1", " ", "r", "u", "n", "n", "i", "n", "g", " ", "5", "1", "2", " ", "2">>

Vm2Line == <<"v", "m", "2", " ", "p", "a", "u", "s", "e", "d", " ", "2", "5", "6", " ", "1">>

Vm3Line == <<" ", " ", "v", "m", "3", " ", "b", "l", "o", "c", "k", "e", "d", " ", "6", "4", " ", "1">>

BlankLines == {<<>>, <<" ", " ">>}

ListLines == {Header, Vm1Line, Vm2Line, Vm3Line} \cup BlankLines

ListOutputs == {Stdout(l, nl) : l \in SeqsUpTo(ListLines, MaxLines), nl \in BOOLEAN}

\* `xl info -n`
TotalLine == <<"t", "o", "t", "a", "l", "_", "m", "e", "m", "o", "r", "y", " ", ":", " ", "8", "1", "9", "2">>

FreeLine == <<"f", "r", "e", "e", "_", "m", "e", "m", "o", "r", "y", " ", ":", " ", "2", "0", "4", "8">>

FreeLargeLine == <<"f", "r", "e", "e", "_", "m", "e", "m", "o", "r", "y", " ", " ", " ", " ", " ", " ", " ", " ", " ", " ", " ", ":", " ", "1", "6", "3", "8", "4">>

TotalNoColon == <<"t", "o", "t", "a", "l", "_", "m", "e", "m", "o", "r", "y", " ", "8", "1", "9", "2">>

FreeNoColon == <<"f", "r", "e", "e", "_", "m", "e", "m", "o", "r", "y">>

TotalNotNumeric == <<"t", "o", "t", "a", "l", "_", "m", "e", "m", "o", "r", "y", " ", ":", " ", "n", "/", "a">>

FreeNoValue == <<"f", "r", "e", "e", "_", "m", "e", "m", "o", "r", "y", " ", ":", " ">>

OtherLine == <<"n", "r", "_", "c", "p", "u", "s", " ", ":", " ", "4">>

MalformedMemLines == {TotalNoColon, FreeNoColon, TotalNotNumeric, FreeNoValue}

MemLines ==
    {TotalLine, FreeLine, FreeLargeLine, OtherLine, <<>>} \cup MalformedMemLines

MemOutputs == {Stdout(l, nl) : l \in SeqsUpTo(MemLines, MaxMemLines), nl \in BOOLEAN}

\* `xl info -n cpu`
CpuLine == <<"c", "p", "u">>

CpuOutputs ==
    {Stdout([i \in 1..n |-> CpuLine], nl) : n \in 0..MaxCpuLines, nl \in BOOLEAN}

\* `xl list -l <name>`
RawTokens ==
    {"running", "blocked", "paused", "shutdown", "crashed", "dying",
     "unknown", "RUNNING", ""}

DomainObjects ==
    { Obj(st, mx, me, vc) :
        st \in {Missing, Null} \cup {Str(tok) : tok \in RawTokens},
        mx \in {Missing, Null, Num(512), Str("512")},
        me \in {Missing, Num(256)},
        vc \in {Missing, Num(2)} }

OtherItems == {Num(7), Obj(Str("paused"), Num(64), Num(64), Num(1))}

JsonLists ==
    {List(<<>>)} \cup
    { List(<<first>> \o rest) :
        first \in DomainObjects \cup {Num(7)},
        rest \in SeqsUpTo(OtherItems, MaxDomains - 1) }

JsonDocs == {Undecodable, Null, Num(0), Str("vm1")} \cup JsonLists

\* Instance specifications with the name spelled out character by
\* character, quote and line break among the characters.
MaxNameLen == 2

NameChars == {"a", "'", "\n"}

TextInstances ==
    { [name |-> n, uuid |-> <<"u">>, memory_mb |-> mem, vcpus |-> v] :
        n \in SeqsUpTo(NameChars, MaxNameLen) \ {<<>>},
        mem \in {512, 1024}, v \in {1, 2} }

\* The network-interface descriptors of attach_interface and
\* detach_interface.
Vifs ==
    { [id |-> "vif-1", address |-> "aa:bb:cc:00:00:01", network |-> [bridge |-> "br0"]],
      [id |-> "vif-2", address |-> "aa:bb:cc:00:00:02", network |-> [bridge |-> "br1"]] }

NoVif == [id |-> "", address |-> "", network |-> [bridge |-> ""]]

Call(name, instance, proc, proc2) ==
    [op |-> name, instance |-> instance, proc |-> proc, proc2 |-> proc2,
     vif |-> NoVif]

VifCall(name, instance, vif, proc) ==
    [op |-> name, instance |-> instance, proc |-> proc, proc2 |-> NoProc,
     vif |-> vif]

Ok(stdouts) == {Proc("exit0", o, "") : o \in stdouts}

Calls ==
    {Call("_execute_xl", NoInstance, p, NoProc) :
        p \in FailProcs \cup Ok(CpuOutputs)}
    \cup {Call("get_info", i, p, NoProc) :
        i \in Instances, p \in FailProcs \cup Ok(JsonDocs)}
    \cup {Call("list_instances", NoInstance, p, NoProc) :
        p \in FailProcs \cup Ok(ListOutputs)}
    \cup {Call("get_available_resource", NoInstance, p, p2) :
        p \in FailProcs \cup Ok(MemOutputs), p2 \in FailProcs \cup Ok(CpuOutputs)}
    \cup {Call("_get_xl_config", i, NoProc, NoProc) : i \in TextInstances}
    \cup {VifCall(o, i, v, p) :
        o \in {"attach_interface", "detach_interface"}, i \in Instances,
        v \in Vifs, p \in FailProcs \cup {NoProc}}

(***************************************************************************)
(* The stateless operations, each applied once to the call drawn at the    *)
(* start.                                                                  *)
(***************************************************************************)
Pending == ret.status = "none"

_execute_xl_call ==
    /\ call.op = "_execute_xl" /\ Pending
    /\ ret' = _execute_xl(call.proc)
    /\ UNCHANGED <<call, lifecycleVars>>

get_info_call ==
    /\ call.op = "get_info" /\ Pending
    /\ ret' = get_info(call.instance, call.proc)
    /\ UNCHANGED <<call, lifecycleVars>>

list_instances_call ==
    /\ call.op = "list_instances" /\ Pending
    /\ ret' = list_instances(call.proc)
    /\ UNCHANGED <<call, lifecycleVars>>

get_available_resource_call ==
    /\ call.op = "get_available_resource" /\ Pending
    /\ ret' = get_available_resource(call.proc, call.proc2)
    /\ UNCHANGED <<call, lifecycleVars>>

_get_xl_config_call ==
    /\ call.op = "_get_xl_config" /\ Pending
    /\ ret' = Returned(ConfigText(_get_xl_config(call.instance)), <<>>)
    /\ UNCHANGED <<call, lifecycleVars>>

attach_interface_call ==
    /\ call.op = "attach_interface" /\ Pending
    /\ ret' = attach_interface(call.instance, call.vif, call.proc)
    /\ UNCHANGED <<call, lifecycleVars>>

detach_interface_call ==
    /\ call.op = "detach_interface" /\ Pending
    /\ ret' = detach_interface(call.instance, call.vif, call.proc)
    /\ UNCHANGED <<call, lifecycleVars>>

InitQuery ==
    /\ LifecycleInit
    /\ call \in Calls
    /\ ret = NoRet

NextQuery ==
    \/ _execute_xl_call
    \/ get_info_call
    \/ list_instances_call
    \/ get_available_resource_call
    \/ _get_xl_config_call
    \/ attach_interface_call
    \/ detach_interface_call

SpecQuery == InitQuery /\ [][NextQuery]_vars

\* All operations of the driver: either the threads run spawn, destroy and
\* reboot, or one stateless operation is applied to the call drawn at the
\* start.
InitAll == Init \/ InitQuery

NextAll ==
    \/ call = NoCall /\ Next
    \/ NextQuery

SpecAll == InitAll /\ [][NextAll]_vars

(***************************************************************************)
(* Properties of destroy and spawn (specification Spec).                   *)
(***************************************************************************)
InDestroy(t) == op[t].kind = "destroy"

InSpawn(t) == op[t].kind = "spawn"

AtReturn(t) == pc[t] = "ret"

NameOf(t) == op[t].instance.name

Steps(t) == [i \in 1..Len(trace[t]) |-> trace[t][i].step]

\* C1: whenever the 'destroy <name>' command exits non-zero, destroy returns
\* normally to its caller, and with destroy_disks the removal of the instance
\* directory was attempted after the failed command.
C1_DestroyCommandFailureNotRaised ==
    \A t \in Threads :
        (AtReturn(t) /\ InDestroy(t) /\ trace[t][1].outcome = "nonzero") =>
            /\ result[t] = "ok"
            /\ op[t].destroy_disks =>
                  (Len(trace[t]) = 2 /\ trace[t][2].step = "rm")

\* C2 as stated: a destroy that returns, called with the instance RUNNING,
\* PAUSED or ABSENT, leaves the instance ABSENT.
C2_DestroyEndsAbsent ==
    \A t \in Threads :
        (AtReturn(t) /\ InDestroy(t) /\ result[t] = "ok"
            /\ startDom[t] \in {"RUNNING", "PAUSED", "ABSENT"}) =>
            dom[NameOf(t)] = "ABSENT"

\* C2 as amended: when destroy ends, the instance is ABSENT if the destroy
\* command exited 0 or the instance was ABSENT at the call; if the command
\* failed, the instance is in the state it had at the call.
C2_DestroyEndsAbsentIfCommandSucceeds ==
    \A t \in Threads :
        (AtReturn(t) /\ InDestroy(t)) =>
            /\ (trace[t][1].outcome = "exit0" \/ startDom[t] = "ABSENT") =>
                  dom[NameOf(t)] = "ABSENT"
            /\ trace[t][1].outcome # "exit0" => dom[NameOf(t)] = startDom[t]

C2_Witness ==
    \E t \in Threads :
        /\ AtReturn(t) /\ InDestroy(t) /\ result[t] = "ok"
        /\ startDom[t] = "RUNNING"
        /\ trace[t][1].outcome = "exit0"
        /\ dom[NameOf(t)] = "ABSENT"

\* The external calls of a complete spawn, in order.
SpawnPlan(o) ==
    << Ext("makedirs", instance_dir(o.instance.name), "ok"),
       Ext("write", cfg_path(o.instance.name), "ok"),
       Ext("create", cfg_path(o.instance.name), "exit0") >>
    \o (IF o.power_on THEN <<>> ELSE << Ext("pause", o.instance.name, "exit0") >>)

\* C3: the external calls of a spawn are, in this order, makedirs of the
\* instance directory (no error when it exists), the write of the artifact to
\* <instance dir>/config, `create` with that path and, only when power_on is
\* false, `pause`; each call is made only after the one before it succeeded,
\* and a spawn that returns normally has made all of them.
C3_SpawnStepOrder ==
    \A t \in Threads :
        InSpawn(t) =>
            LET plan == SpawnPlan(op[t])
                n    == Len(trace[t])
            IN
            /\ n <= Len(plan)
            /\ \A i \in 1..n :
                  /\ trace[t][i].step = plan[i].step
                  /\ trace[t][i].arg = plan[i].arg
                  /\ i < n => trace[t][i] = plan[i]
            /\ (AtReturn(t) /\ result[t] = "ok") => trace[t] = plan
            /\ (n >= 1 /\ trace[t][1].outcome = "error") =>
                  instance_dir(NameOf(t)) \notin dirs
            /\ (n >= 2 /\ trace[t][2].outcome = "ok") =>
                  files[cfg_path(NameOf(t))] = _get_xl_config(op[t].instance)

C3_Witness ==
    \E t \in Threads :
        /\ InSpawn(t) /\ AtReturn(t) /\ result[t] = "ok"
        /\ ~op[t].power_on
        /\ Steps(t) = <<"makedirs", "write", "create", "pause">>
        /\ dom[NameOf(t)] = "PAUSED"

\* C7: however the removal of the instance directory fails, destroy logs a
\* warning and returns normally.
C7_RemovalFailureNotRaised ==
    \A t \in Threads :
        (AtReturn(t) /\ InDestroy(t) /\ Len(trace[t]) = 2
            /\ trace[t][2].outcome # "exit0") =>
            /\ result[t] = "ok"
            /\ log[t] # <<>> /\ log[t][Len(log[t])] = "warning"

(***************************************************************************)
(* Properties of the stateless operations (specification SpecQuery).       *)
(***************************************************************************)
Done(name) == call.op = name /\ ~Pending

Exit0 == call.proc.outcome = "exit0"

\* The decoded listing has a first element that is an object.
FirstIsObject(data) ==
    data.t = "list" /\ data.items # <<>> /\ data.items[1].t = "obj"

AllKeys == {"state", "maxmem", "mem", "vcpus"}

\* C4: get_info raises InstanceNotFound for an empty listing, for a failed
\* command, for undecodable output and for a first element lacking a required
\* field; it raises nothing but InstanceNotFound, and a record it returns
\* comes from a first element that carries all four fields.
C4_GetInfoOnlyNotFound ==
    Done("get_info") =>
        /\ ret.status = "raised" =>
              ret.exc = "InstanceNotFound" /\ ret.msg = call.instance.uuid
        /\ IF ~Exit0 THEN ret.status = "raised"
           ELSE LET data == call.proc.stdout IN
                /\ data.t = "undecodable" => ret.status = "raised"
                /\ (data.t = "list" /\ data.items = <<>>) => ret.status = "raised"
                /\ (FirstIsObject(data) /\ ObjKeys(data.items[1]) # AllKeys) =>
                      ret.status = "raised"
                /\ ret.status = "returned" =>
                      FirstIsObject(data) /\ ObjKeys(data.items[1]) = AllKeys

C4_Witness ==
    /\ Done("get_info") /\ Exit0
    /\ call.proc.stdout.t = "list" /\ call.proc.stdout.items = <<>>
    /\ ret.status = "raised" /\ ret.exc = "InstanceNotFound"

\* The mapping as the specification states it.
CanonicalState(tok) ==
    CASE tok \in {"running", "blocked"} -> "RUNNING"
      [] tok = "paused"                 -> "PAUSED"
      [] tok = "shutdown"               -> "SHUTDOWN"
      [] tok \in {"crashed", "dying"}   -> "CRASHED"
      [] OTHER                          -> "NOSTATE"

\* The fields other than state are ones get_info can use.
RestUsable(o) ==
    /\ o.maxmem.t \in {"num", "str"}
    /\ o.mem.t \in {"num", "str"}
    /\ o.vcpus.t # "missing"

\* C5: for a listing whose first element has a state token, and other fields
\* get_info can use, get_info returns, whatever the token, and the state it
\* returns is the canonical one: RUNNING for running and blocked, PAUSED for
\* paused, SHUTDOWN for shutdown, CRASHED for crashed and dying, NOSTATE for
\* every other token.
C5_PowerStateTotal ==
    (Done("get_info") /\ Exit0) =>
        LET data == call.proc.stdout IN
        (FirstIsObject(data) /\ data.items[1].state.t = "str"
            /\ RestUsable(data.items[1])) =>
            /\ ret.status = "returned"
            /\ ret.value.state = CanonicalState(data.items[1].state.v)

C5_Witness ==
    /\ Done("get_info") /\ Exit0
    /\ FirstIsObject(call.proc.stdout)
    /\ call.proc.stdout.items[1].state.t = "str"
    /\ call.proc.stdout.items[1].state.v = "unknown"
    /\ ret.status = "returned"
    /\ ret.value.state = "NOSTATE"

\* C6: _execute_xl raises the same NovaException carrying stderr when the
\* process exits non-zero and when the process cannot be started.
C6_SameErrorBothFailures ==
    (Done("_execute_xl") /\ call.proc.outcome \in {"nonzero", "cannot_start"}) =>
        /\ ret.status = "raised"
        /\ ret.exc = "NovaException"
        /\ ret.msg = call.proc.stderr

\* tok is the first whitespace-delimited token of line.
IsFirstToken(tok, line) ==
    /\ tok # <<>>
    /\ \A i \in 1..Len(tok) : tok[i] \notin Whitespace
    /\ \E k \in 0..(Len(line) - Len(tok)) :
          /\ \A i \in 1..k : line[i] \in Whitespace
          /\ SubSeq(line, k + 1, k + Len(tok)) = tok
          /\ k + Len(tok) < Len(line) => line[k + Len(tok) + 1] \in Whitespace

HasToken(line) == \E i \in 1..Len(line) : line[i] \notin Whitespace

\* C8: for an output of a header line followed by n lines that each hold a
\* token, list_instances returns n names, the i-th being the first token of
\* the i-th line after the header; the header NAME STATE MEM VCPUS with the
\* lines of vm1 and vm2 gives <<vm1, vm2>>.
C8_ListSkipsHeaderTakesFirstTokens ==
    (Done("list_instances") /\ Exit0) =>
        LET lines == splitlines(call.proc.stdout) IN
        /\ (lines # <<>> /\ \A i \in 2..Len(lines) : HasToken(lines[i])) =>
              /\ ret.status = "returned"
              /\ Len(ret.value) = Len(lines) - 1
              /\ \A i \in 1..Len(ret.value) : IsFirstToken(ret.value[i], lines[i + 1])
        /\ lines = <<Header, Vm1Line, Vm2Line>> =>
              ret.value = << <<"v", "m", "1">>, <<"v", "m", "2">> >>

C8_Witness ==
    /\ Done("list_instances") /\ Exit0
    /\ splitlines(call.proc.stdout) = <<Header, Vm1Line, Vm2Line>>
    /\ ret.status = "returned"
    /\ ret.value = << <<"v", "m", "1">>, <<"v", "m", "2">> >>

\* C9: a malformed line does not abort a line-oriented parse: list_instances
\* on an output with a header returns even when a later line is blank, and
\* get_available_resource returns even when a total_memory or free_memory
\* line has no colon or no numeric value.
C9_MalformedLinesSkipped ==
    /\ (Done("list_instances") /\ Exit0 /\ splitlines(call.proc.stdout) # <<>>) =>
          /\ ret.status = "returned"
          /\ Len(ret.value) =
                Cardinality({i \in 2..Len(splitlines(call.proc.stdout)) :
                                HasToken(splitlines(call.proc.stdout)[i])})
    /\ (Done("get_available_resource") /\ Exit0
            /\ call.proc2.outcome = "exit0") =>
          ret.status = "returned"

\* C10: list_instances raises when the header line is missing from the
\* output, as it is from an empty output.
C10_MissingHeaderRaises ==
    (Done("list_instances") /\ Exit0
        /\ (splitlines(call.proc.stdout) = <<>>
            \/ splitlines(call.proc.stdout)[1] # Header)) =>
        ret.status = "raised"

\* The figure a well-formed memory line of the outputs carries.
LineKb(line) ==
    CASE line = TotalLine     -> 8192
      [] line = FreeLine      -> 2048
      [] line = FreeLargeLine -> 16384
      [] OTHER                -> 0

\* The figure of the last line of lines that is in S; 0 when there is none.
LastKb(lines, S) ==
    IF \E i \in 1..Len(lines) : lines[i] \in S
    THEN LineKb(lines[CHOOSE i \in 1..Len(lines) :
                        /\ lines[i] \in S
                        /\ \A j \in (i + 1)..Len(lines) : lines[j] \notin S])
    ELSE 0

\* q is a integer-divided by b (rounding towards minus infinity).
IsFloorDiv(q, a, b) == q * b <= a /\ a < (q + 1) * b

\* The number of lines of a text: its line breaks, and one more for a last
\* line that no line break ends.
LineCount(text) ==
    Cardinality({i \in 1..Len(text) : text[i] = "\n"})
    + (IF text # <<>> /\ text[Len(text)] # "\n" THEN 1 ELSE 0)

\* C11: for memory-info output without a malformed line, the snapshot has
\* memory_mb = total_memory integer-divided by 1024, memory_mb_used =
\* (total_memory - free_memory) integer-divided by 1024 and vcpus = the number
\* of lines of the cpu-info output; total_memory 8192, free_memory 2048 and
\* four cpu-info lines give memory_mb 8, memory_mb_used 6 and vcpus 4.
C11_ResourceArithmetic ==
    (Done("get_available_resource") /\ Exit0 /\ call.proc2.outcome = "exit0") =>
        LET lines == splitlines(call.proc.stdout)
            total == LastKb(lines, {TotalLine})
            free  == LastKb(lines, {FreeLine, FreeLargeLine})
        IN
        /\ (\A i \in 1..Len(lines) : lines[i] \notin MalformedMemLines) =>
              /\ ret.status = "returned"
              /\ IsFloorDiv(ret.value.memory_mb, total, 1024)
              /\ IsFloorDiv(ret.value.memory_mb_used, total - free, 1024)
              /\ ret.value.vcpus = LineCount(call.proc2.stdout)
        /\ (lines = <<TotalLine, FreeLine>> /\ LineCount(call.proc2.stdout) = 4) =>
              /\ ret.value.memory_mb = 8
              /\ ret.value.memory_mb_used = 6
              /\ ret.value.vcpus = 4

C11_Witness ==
    /\ Done("get_available_resource") /\ Exit0 /\ call.proc2.outcome = "exit0"
    /\ splitlines(call.proc.stdout) = <<TotalLine, FreeLine>>
    /\ LineCount(call.proc2.stdout) = 4
    /\ ret.status = "returned"
    /\ ret.value.memory_mb = 8
    /\ ret.value.memory_mb_used = 6
    /\ ret.value.vcpus = 4

\* C19: every snapshot get_available_resource returns has
\* 0 <= memory_mb_used <= memory_mb, also when the total_memory line or the
\* free_memory line is absent from the output.
C19_UsedWithinTotal ==
    (Done("get_available_resource") /\ ret.status = "returned") =>
        /\ 0 <= ret.value.memory_mb_used
        /\ ret.value.memory_mb_used <= ret.value.memory_mb

(***************************************************************************)
(* Properties of reboot, spawn and destroy (specifications Spec, SpecRace) *)
(***************************************************************************)
InReboot(t) == op[t].kind = "reboot"

Failed(t) == result[t] \in {"NovaException", "OSError"}

\* The error _execute_xl raises for a process outcome.
ErrorOf(outcome) ==
    CASE outcome = "nonzero"      -> "NovaException"
      [] outcome = "cannot_start" -> "OSError"
      [] OTHER                    -> "ok"

\* C12: a reboot makes one xl call, `reboot <name>` for SOFT and
\* `reset <name>` for HARD; it returns normally when the command exits 0 and
\* raises the command's error, with no warning logged, when it fails.
C12_RebootOneCommand ==
    \A t \in Threads :
        InReboot(t) =>
            /\ Len(trace[t]) <= 1
            /\ \A i \in 1..Len(trace[t]) :
                  /\ op[t].reboot_type = "SOFT" => trace[t][i].step = "reboot"
                  /\ op[t].reboot_type = "HARD" => trace[t][i].step = "reset"
                  /\ trace[t][i].arg = NameOf(t)
            /\ AtReturn(t) =>
                  /\ Len(trace[t]) = 1
                  /\ result[t] = ErrorOf(trace[t][1].outcome)
                  /\ \A i \in 1..Len(log[t]) : log[t][i] # "warning"

C12_Witness ==
    \E t \in Threads :
        /\ InReboot(t) /\ AtReturn(t)
        /\ op[t].reboot_type = "HARD"
        /\ trace[t] = << Ext("reset", NameOf(t), "nonzero") >>
        /\ result[t] = "NovaException"

\* The instance directory and config file of a spawn are on disk as the
\* spawn wrote them.
ConfigOnDisk(t) ==
    /\ instance_dir(NameOf(t)) \in dirs
    /\ files[cfg_path(NameOf(t))] = _get_xl_config(op[t].instance)

\* C14: a spawn whose create command fails raises, has made no call after
\* create (no pause, whatever power_on is), and leaves the directory and the
\* config file on disk and the domain as it was at the call; a spawn whose
\* pause command fails raises and leaves the created domain RUNNING and the
\* files on disk.
C14_SpawnNoRollback ==
    \A t \in Threads :
        (InSpawn(t) /\ AtReturn(t)) =>
            /\ (Len(trace[t]) >= 3 /\ trace[t][3].outcome # "exit0") =>
                  /\ Failed(t)
                  /\ Len(trace[t]) = 3
                  /\ ConfigOnDisk(t)
                  /\ dom[NameOf(t)] = startDom[t]
            /\ (Len(trace[t]) = 4 /\ trace[t][4].outcome # "exit0") =>
                  /\ Failed(t)
                  /\ ConfigOnDisk(t)
                  /\ dom[NameOf(t)] = "RUNNING"

C14_Witness ==
    \E t \in Threads :
        /\ InSpawn(t) /\ AtReturn(t)
        /\ ~op[t].power_on
        /\ Len(trace[t]) = 3
        /\ trace[t][3].outcome = "nonzero"
        /\ result[t] = "NovaException"
        /\ ConfigOnDisk(t)
        /\ dom[NameOf(t)] = "ABSENT"

\* What the file system holds for an instance name.
FsOf(n) == <<instance_dir(n) \in dirs, files[cfg_path(n)]>>

\* Thread t takes a step of destroy.
DestroyStep(t) ==
    InDestroy(t) /\ pc[t] \in {"destroy", "rm"} /\ pc'[t] # pc[t]

\* C16: no step of a destroy changes the directory or the config file of
\* another instance; a destroy with destroy_disks false changes nothing of
\* its own instance's directory either; the directory changes only in the
\* removal step of a destroy with destroy_disks true, and is gone when the
\* removal exits 0.
C16_DestroyFrame ==
    [][\A t \in Threads :
          DestroyStep(t) =>
              \A n \in Names :
                  IF n # NameOf(t)
                  THEN FsOf(n)' = FsOf(n)
                  ELSE /\ ~op[t].destroy_disks => FsOf(n)' = FsOf(n)
                       /\ FsOf(n)' # FsOf(n) =>
                             op[t].destroy_disks /\ pc[t] = "rm"
                       /\ (pc[t] = "rm" /\ trace'[t][2].outcome = "exit0") =>
                             FsOf(n)' = <<FALSE, NoFile>>
      ]_vars

C16_Witness ==
    \E t \in Threads :
        /\ InDestroy(t) /\ AtReturn(t) /\ result[t] = "ok"
        /\ ~op[t].destroy_disks
        /\ instance_dir(NameOf(t)) \in dirs
        /\ files[cfg_path(NameOf(t))] \in Artifacts

\* Domain state, directory and config file of an instance name.
StateOf(n) == <<dom[n], instance_dir(n) \in dirs, files[cfg_path(n)]>>

\* The states an external call e of an operation on instance i can leave the
\* instance in, from state s of that instance alone.
EffectOf(e, i, s) ==
    CASE e.step = "makedirs" ->
            IF e.outcome = "ok" THEN {<<s[1], TRUE, s[3]>>} ELSE {s}
      [] e.step = "write" ->
            IF e.outcome = "ok" THEN {<<s[1], s[2], _get_xl_config(i)>>}
            ELSE {s, <<s[1], s[2], EmptyFile>>}
      [] e.step = "create" ->
            IF e.outcome = "exit0" THEN {<<"RUNNING", s[2], s[3]>>} ELSE {s}
      [] e.step = "pause" ->
            IF e.outcome = "exit0" THEN {<<"PAUSED", s[2], s[3]>>} ELSE {s}
      [] e.step = "destroy" ->
            IF e.outcome = "exit0" THEN {<<"ABSENT", s[2], s[3]>>} ELSE {s}
      [] e.step = "rm" ->
            IF e.outcome = "exit0" THEN {<<s[1], FALSE, NoFile>>}
            ELSE IF e.outcome = "nonzero" THEN {s, <<s[1], s[2], NoFile>>}
            ELSE {s}
      [] OTHER -> {s}

\* C17: with the operations on each name serialized, every step of an
\* operation on one instance leaves domain state, directory and config file
\* of every other instance unchanged, and changes those of its own instance
\* as the call it makes would with no other operation in progress; so the
\* interleaving of operations on different names ends as their serial
\* execution does.
C17_DifferentNamesDoNotInterfere ==
    [][\A t \in Threads :
          pc'[t] # pc[t] =>
              \A n \in Names :
                  IF n = NameOf(t) /\ Len(trace'[t]) > Len(trace[t])
                  THEN StateOf(n)' \in
                          EffectOf(trace'[t][Len(trace'[t])], op[t].instance,
                                   StateOf(n))
                  ELSE StateOf(n)' = StateOf(n)
      ]_vars

C17_Witness ==
    /\ NameOf("t1") \in Names /\ NameOf("t2") \in Names
    /\ NameOf("t1") # NameOf("t2")
    /\ pc["t1"] = "create"
    /\ pc["t2"] = "rm"
    /\ dom[NameOf("t2")] = "ABSENT"

\* C18: without an overlapping operation on the same name, a spawn that is
\* about to invoke create finds at cfg_path the artifact of its own
\* specification.
C18_CreateSeesOwnConfig ==
    \A t \in Threads :
        (InSpawn(t) /\ pc[t] = "create" /\ ~raced[t]) =>
            files[cfg_path(NameOf(t))] = _get_xl_config(op[t].instance)

C18_Witness ==
    \E t \in Threads :
        /\ InSpawn(t) /\ pc[t] = "create" /\ ~raced[t]
        /\ files[cfg_path(NameOf(t))] = _get_xl_config(op[t].instance)
        /\ \E u \in Threads \ {t} : pc[u] = "idle"

\* C18, the other half: with an overlapping destroy or spawn on the same
\* name, a spawn can be about to invoke create while cfg_path holds no file
\* or the artifact of another specification.
C18_RaceLosesConfig ==
    \E t \in Threads :
        /\ InSpawn(t) /\ pc[t] = "create" /\ raced[t]
        /\ files[cfg_path(NameOf(t))] # _get_xl_config(op[t].instance)

(***************************************************************************)
(* Error propagation of all operations (specification SpecAll)             *)
(***************************************************************************)
IsCommand(e) == e.step \in {"create", "pause", "reboot", "reset"}

\* The error _execute_xl raises for the command behind a trace entry.
CommandError(e) == _execute_xl(Proc(e.outcome, <<>>, "")).exc

\* spawn and reboot: a failed xl command is the last call of the operation,
\* and the operation ends with the error _execute_xl raised for it.
LifecyclePropagates ==
    \A t \in Threads :
        (InSpawn(t) \/ InReboot(t)) =>
            \A i \in 1..Len(trace[t]) :
                (IsCommand(trace[t][i]) /\ trace[t][i].outcome # "exit0") =>
                    /\ i = Len(trace[t])
                    /\ pc[t] = "ret"
                    /\ result[t] = CommandError(trace[t][i])

SameError(r, proc) ==
    /\ r.status = "raised"
    /\ r.exc = _execute_xl(proc).exc
    /\ r.msg = _execute_xl(proc).msg

\* The stateless operation `name` ends with the error of its failed command.
QueryPropagates(name) ==
    Done(name) =>
        /\ call.proc.outcome # "exit0" => SameError(ret, call.proc)
        /\ (call.proc.outcome = "exit0" /\ call.proc2.outcome # "exit0"
            /\ name = "get_available_resource") =>
              /\ ret.status = "raised"
              /\ ret.exc \in {"ValueError", "IndexError"} \/ SameError(ret, call.proc2)

\* C13 as stated: spawn, reboot, get_info, list_instances,
\* get_available_resource, attach_interface and detach_interface all end
\* with the error their failed command raised, never with a normal return
\* or another error kind.
C13_AllPropagateUnchanged ==
    /\ LifecyclePropagates
    /\ \A name \in {"get_info", "list_instances", "get_available_resource",
                    "attach_interface", "detach_interface"} :
          QueryPropagates(name)

\* C13 amended: spawn, reboot, list_instances, get_available_resource,
\* attach_interface and detach_interface end with the error their failed
\* command raised; get_info ends with InstanceNotFound whatever error its
\* command raised.
C13_AllButGetInfoPropagateUnchanged ==
    /\ LifecyclePropagates
    /\ \A name \in {"list_instances", "get_available_resource",
                    "attach_interface", "detach_interface"} :
          QueryPropagates(name)
    /\ (Done("get_info") /\ call.proc.outcome # "exit0") =>
          ret.status = "raised" /\ ret.exc = "InstanceNotFound"

C13_Witness ==
    /\ Done("attach_interface")
    /\ call.proc = Proc("nonzero", <<>>, "xl: error")
    /\ ret.status = "raised"
    /\ ret.exc = "NovaException"
    /\ ret.msg = "xl: error"

(***************************************************************************)
(* The artifact of _get_xl_config read back (specification SpecQuery)      *)
(***************************************************************************)
\* C15: the name, memory and vcpus fields parsed out of the artifact of any
\* instance specification are the name, memory size and vCPU count of that
\* specification, also when the name contains a quote or a line break.
C15_ConfigRoundTrip ==
    Done("_get_xl_config") =>
        ParseConfig(ret.value) = [name      |-> call.instance.name,
                                  memory_mb |-> call.instance.memory_mb,
                                  vcpus     |-> call.instance.vcpus]

====
